---------------------------- MODULE Spec2Model ----------------------------
(***************************************************************************)
(* A model of King::FloatPoint2 / FloatPoint3 / FloatPoint4 / Quaternion   *)
(* (MathSIMD.h).  Every object is its XMVECTORF32 storage: four lanes.     *)
(* FloatPoint<c> stands for the class with c logical lanes, c = 2, 3, 4.   *)
(*                                                                         *)
(* A lane is a pair <<n, d>>: the float n/d in lowest terms with d > 0,    *)
(* or one of the three IEEE specials, which have d = 0:                    *)
(*     NaN = <<0,0>>    +Infinity = <<1,0>>    -Infinity = <<-1,0>>        *)
(* Arithmetic on lanes is exact, so the model covers the inputs on which   *)
(* binary32 arithmetic is exact (small integers, halves, quarters); it     *)
(* does not model rounding, overflow to Infinity, or the sign of zero.     *)
(***************************************************************************)
EXTENDS Integers, Sequences, FiniteSets, TLC

\* Finite lanes of the enumerated inputs are the integers -MaxLane..MaxLane.
MaxLane == 2
\* Finite lanes of the operands of a two-vector call are 0..MaxPairLane.
MaxPairLane == 1
\* The epsilon arguments of the enumerated calls are 1..MaxEps.
MaxEps == 2
\* Quaternion lanes are the halves n/2 with n in -MaxHalfLane..MaxHalfLane.
MaxHalfLane == 2
\* Each thread makes at most MaxCalls calls of Random.
MaxCalls == 2
\* Lanes of UIntPoint2 are 0..MaxInt, lanes of IntPoint2 and IntPoint3 are
\* -MaxInt..MaxInt.
MaxInt == 1

-----------------------------------------------------------------------------
(* binary32 values and their arithmetic *)

NaN == <<0, 0>>
PInf == <<1, 0>>
NInf == <<-1, 0>>
Flt(n) == <<n, 1>>
Zero == <<0, 1>>
One == <<1, 1>>
Half == <<1, 2>>

IAbs(n) == IF n < 0 THEN -n ELSE n
Sgn(n) == IF n < 0 THEN -1 ELSE IF n = 0 THEN 0 ELSE 1

RECURSIVE GCD(_, _)
GCD(a, b) == IF b = 0 THEN a ELSE GCD(b, a % b)

\* n/d (d # 0) in lowest terms with a positive denominator
Frac(n, d) ==
    LET g == GCD(IAbs(n), IAbs(d))
        s == Sgn(d)
    IN  <<(s * n) \div g, (s * d) \div g>>

isnan(x) == x = NaN
isinf(x) == x[2] = 0 /\ x[1] # 0

FNeg(a) == <<-a[1], a[2]>>
FAbs(a) == <<IAbs(a[1]), a[2]>>

FAdd(a, b) ==
    IF isnan(a) \/ isnan(b) THEN NaN
    ELSE IF isinf(a) THEN (IF isinf(b) /\ a # b THEN NaN ELSE a)
    ELSE IF isinf(b) THEN b
    ELSE Frac(a[1] * b[2] + b[1] * a[2], a[2] * b[2])

FSub(a, b) == FAdd(a, FNeg(b))

\* Infinity * 0 = NaN, Infinity * x = +-Infinity
FMul(a, b) ==
    IF a[2] = 0 \/ b[2] = 0 THEN <<Sgn(a[1]) * Sgn(b[1]), 0>>
    ELSE Frac(a[1] * b[1], a[2] * b[2])

\* x/0 = +-Infinity, 0/0 = Infinity/Infinity = NaN, x/Infinity = 0
FDiv(a, b) ==
    IF isnan(a) \/ isnan(b) THEN NaN
    ELSE IF isinf(a) THEN (IF isinf(b) THEN NaN
                           ELSE <<a[1] * (IF b[1] < 0 THEN -1 ELSE 1), 0>>)
    ELSE IF isinf(b) THEN Zero
    ELSE IF b[1] = 0 THEN <<Sgn(a[1]), 0>>
    ELSE Frac(a[1] * b[2], a[2] * b[1])

\* The ordered comparisons: false as soon as one side is NaN.
FEq(a, b) == ~isnan(a) /\ ~isnan(b) /\ a = b
FLess(a, b) ==
    /\ ~isnan(a) /\ ~isnan(b) /\ a # b
    /\ IF a = NInf \/ b = PInf THEN TRUE
       ELSE IF a = PInf \/ b = NInf THEN FALSE
       ELSE a[1] * b[2] < b[1] * a[2]
FLessEq(a, b) == FEq(a, b) \/ FLess(a, b)

\* Square root.  It is exact where the radicand is NaN, an Infinity,
\* negative, or the square of a rational (HasExactSqrt); the calls that take
\* a root are made on such radicands only.
ISqrt(n) == CHOOSE r \in 0..n : r * r <= n /\ (r + 1) * (r + 1) > n
HasExactSqrt(x) ==
    x[2] = 0 \/ x[1] < 0 \/ (ISqrt(x[1]) * ISqrt(x[1]) = x[1] /\ ISqrt(x[2]) * ISqrt(x[2]) = x[2])
FSqrt(x) ==
    IF x = PInf THEN PInf
    ELSE IF x[2] = 0 \/ x[1] < 0 THEN NaN
    ELSE <<ISqrt(x[1]), ISqrt(x[2])>>

-----------------------------------------------------------------------------
(* DirectXMath, as MathSIMD.h calls it.  A vector is <<x, y, z, w>>; a      *)
(* control mask is a tuple of four BOOLEANs.  XMVectorN<F>(n, ...) stands   *)
(* for XMVector2<F>, XMVector3<F> and XMVector4<F>, which read the first    *)
(* n = 2, 3, 4 lanes.                                                       *)

XMVectorSet(x, y, z, w) == <<x, y, z, w>>
XMVectorReplicate(s) == <<s, s, s, s>>
\* XMVectorZero() and g_XMZero
XMVectorZero == XMVectorReplicate(Zero)
XMVectorSetW(V, w) == <<V[1], V[2], V[3], w>>
XMVectorGetX(V) == V[1]

XMVectorAbs(V) ==
    <<FAbs(V[1]), FAbs(V[2]), FAbs(V[3]), FAbs(V[4])>>
XMVectorNegate(V) ==
    <<FNeg(V[1]), FNeg(V[2]), FNeg(V[3]), FNeg(V[4])>>
XMVectorAdd(V1, V2) ==
    <<FAdd(V1[1], V2[1]), FAdd(V1[2], V2[2]), FAdd(V1[3], V2[3]), FAdd(V1[4], V2[4])>>
XMVectorMultiply(V1, V2) ==
    <<FMul(V1[1], V2[1]), FMul(V1[2], V2[2]), FMul(V1[3], V2[3]), FMul(V1[4], V2[4])>>
\* every lane holds the sum of the four lanes
XMVectorSum(V) ==
    XMVectorReplicate(FAdd(FAdd(V[1], V[2]), FAdd(V[3], V[4])))
XMVectorSubtract(V1, V2) ==
    <<FSub(V1[1], V2[1]), FSub(V1[2], V2[2]), FSub(V1[3], V2[3]), FSub(V1[4], V2[4])>>
\* A division that gives 0 in the lanes where the divisor is 0.
XMVectorDivide_ZeroGuarded(V1, V2) ==
    <<IF V2[1] = Zero THEN Zero ELSE FDiv(V1[1], V2[1]),
      IF V2[2] = Zero THEN Zero ELSE FDiv(V1[2], V2[2]),
      IF V2[3] = Zero THEN Zero ELSE FDiv(V1[3], V2[3]),
      IF V2[4] = Zero THEN Zero ELSE FDiv(V1[4], V2[4])>>
XMVectorDivide(V1, V2) ==
    <<FDiv(V1[1], V2[1]), FDiv(V1[2], V2[2]), FDiv(V1[3], V2[3]), FDiv(V1[4], V2[4])>>
XMVectorLess(V1, V2) ==
    <<FLess(V1[1], V2[1]), FLess(V1[2], V2[2]), FLess(V1[3], V2[3]), FLess(V1[4], V2[4])>>
XMVectorLessOrEqual(V1, V2) ==
    <<FLessEq(V1[1], V2[1]), FLessEq(V1[2], V2[2]), FLessEq(V1[3], V2[3]), FLessEq(V1[4], V2[4])>>
\* (V1 & ~Control) | (V2 & Control)
XMVectorSelect(V1, V2, Control) ==
    <<IF Control[1] THEN V2[1] ELSE V1[1], IF Control[2] THEN V2[2] ELSE V1[2],
      IF Control[3] THEN V2[3] ELSE V1[3], IF Control[4] THEN V2[4] ELSE V1[4]>>

\* The comparison mask of the first n lanes is all ones.
XMVectorNEqual(n, V1, V2) == \A i \in 1..n : FEq(V1[i], V2[i])
XMVectorNLess(n, V1, V2) == \A i \in 1..n : FLess(V1[i], V2[i])
XMVectorNLessOrEqual(n, V1, V2) == \A i \in 1..n : FLessEq(V1[i], V2[i])
XMVectorNGreater(n, V1, V2) == \A i \in 1..n : FLess(V2[i], V1[i])
XMVectorNGreaterOrEqual(n, V1, V2) == \A i \in 1..n : FLessEq(V2[i], V1[i])
\* The equality mask of the first n lanes is not all ones.
XMVectorNNotEqual(n, V1, V2) == \E i \in 1..n : ~FEq(V1[i], V2[i])
XMVectorNIsNaN(n, V) == \E i \in 1..n : isnan(V[i])
XMVectorNIsInfinite(n, V) == \E i \in 1..n : isinf(V[i])
\* |V1 - V2| <= Epsilon in each of the first n lanes
XMVectorNNearEqual(n, V1, V2, Epsilon) ==
    \A i \in 1..n : FLessEq(FAbs(FSub(V1[i], V2[i])), Epsilon[i])

\* The dot product of the first n lanes, replicated into the four lanes.
XMVectorNDot(n, V1, V2) ==
    XMVectorReplicate(
        CASE n = 2 -> FAdd(FMul(V1[1], V2[1]), FMul(V1[2], V2[2]))
          [] n = 3 -> FAdd(FAdd(FMul(V1[1], V2[1]), FMul(V1[2], V2[2])), FMul(V1[3], V2[3]))
          [] n = 4 -> FAdd(FAdd(FMul(V1[1], V2[1]), FMul(V1[2], V2[2])),
                           FAdd(FMul(V1[3], V2[3]), FMul(V1[4], V2[4]))))
\* [ V1.x*V2.y - V1.y*V2.x ] replicated into the four lanes
XMVector2Cross(V1, V2) ==
    XMVectorReplicate(FSub(FMul(V1[1], V2[2]), FMul(V1[2], V2[1])))
\* A cross product whose z lane adds its two products.
XMVector3Cross_ZSum(V1, V2) ==
    <<FSub(FMul(V1[2], V2[3]), FMul(V1[3], V2[2])),
      FSub(FMul(V1[3], V2[1]), FMul(V1[1], V2[3])),
      FAdd(FMul(V1[1], V2[2]), FMul(V1[2], V2[1])),
      Zero>>
\* [ V1.y*V2.z - V1.z*V2.y, V1.z*V2.x - V1.x*V2.z, V1.x*V2.y - V1.y*V2.x, 0 ]
XMVector3Cross(V1, V2) ==
    <<FSub(FMul(V1[2], V2[3]), FMul(V1[3], V2[2])),
      FSub(FMul(V1[3], V2[1]), FMul(V1[1], V2[3])),
      FSub(FMul(V1[1], V2[2]), FMul(V1[2], V2[1])),
      Zero>>

XMVectorNLength(n, V) == XMVectorReplicate(FSqrt(XMVectorGetX(XMVectorNDot(n, V, V))))
\* A normalisation that divides by the squared length.
XMVectorNNormalize_BySquaredLength(n, V) ==
    LET lengthSq == XMVectorGetX(XMVectorNDot(n, V, V))
    IN  IF lengthSq = PInf THEN XMVectorReplicate(NaN)
        ELSE IF FEq(lengthSq, Zero) THEN XMVectorZero
        ELSE XMVectorDivide(V, XMVectorReplicate(lengthSq))
\* V / length in all four lanes; the result is masked to zero where the
\* length is 0 and replaced by QNaN where the squared length is +Infinity.
XMVectorNNormalize(n, V) ==
    LET lengthSq == XMVectorGetX(XMVectorNDot(n, V, V))
        length == FSqrt(lengthSq)
    IN  IF lengthSq = PInf THEN XMVectorReplicate(NaN)
        ELSE IF FEq(length, Zero) THEN XMVectorZero
        ELSE XMVectorDivide(V, XMVectorReplicate(length))

-----------------------------------------------------------------------------
(* FloatPoint2, FloatPoint3 : FloatPoint2, FloatPoint4 : FloatPoint3.       *)
(* FloatPoint_<Member>(c, v, ...) is the member that a call on a receiver   *)
(* of static type FloatPoint<c> resolves to, applied to the receiver's      *)
(* storage v: each class declares its own, one case per class.              *)

\* The converting constructors from a raw vector: FloatPoint2(const
\* XMVECTOR&) and FloatPoint4(const FXMVECTOR&) keep the four lanes,
\* FloatPoint3(const XMVECTOR) clears w.
FloatPoint_XMVECTOR(c, vecIn) ==
    CASE c = 2 -> vecIn
      [] c = 3 -> XMVectorSetW(vecIn, Zero)
      [] c = 4 -> vecIn

\* A validity test that looks for NaN only.
FloatPoint_bool_NaNOnly(c, v) == ~XMVectorNIsNaN(c, v)
\* explicit operator bool() const (valid)
FloatPoint_bool(c, v) ==
    CASE c = 2 -> ~XMVectorNIsNaN(2, v) /\ ~XMVectorNIsInfinite(2, v)
      [] c = 3 -> ~XMVectorNIsNaN(3, v) /\ ~XMVectorNIsInfinite(3, v)
      [] c = 4 -> ~XMVectorNIsNaN(4, v) /\ ~XMVectorNIsInfinite(4, v)
\* bool operator!() const (invalid)
FloatPoint_not(c, v) ==
    CASE c = 2 -> XMVectorNIsNaN(2, v) \/ XMVectorNIsInfinite(2, v)
      [] c = 3 -> XMVectorNIsNaN(3, v) \/ XMVectorNIsInfinite(3, v)
      [] c = 4 -> XMVectorNIsNaN(4, v) \/ XMVectorNIsInfinite(4, v)

\* bool IsZero() const: XMVector2Equal in the three classes
FloatPoint_IsZero(c, v) ==
    CASE c = 2 -> XMVectorNEqual(2, v, XMVectorZero)
      [] c = 3 -> XMVectorNEqual(2, v, XMVectorZero)
      [] c = 4 -> XMVectorNEqual(2, v, XMVectorZero)

\* bool IsZeroOrNearZero(epsilon) const: declared by FloatPoint2 alone, and
\* the member a call on a FloatPoint3 or FloatPoint4 resolves to
FloatPoint2_IsZeroOrNearZero(v, epsilon) ==
    XMVectorNNearEqual(2, v, XMVectorZero, XMVectorReplicate(epsilon))

\* bool IsOrNearZero(epsilon) const: declared by FloatPoint3 and FloatPoint4
FloatPoint_IsOrNearZero(c, v, epsilon) ==
    CASE c = 3 -> XMVectorNNearEqual(3, v, XMVectorZero, XMVectorReplicate(epsilon))
      [] c = 4 -> XMVectorNNearEqual(4, v, XMVectorZero, XMVectorReplicate(epsilon))

\* void SetZeroIfNear(epsilon), declared by FloatPoint2 alone: the mask and
\* the selection are computed, the selected vector is the value of an
\* expression statement, and v is not assigned.  The operator is the
\* receiver's storage after the call.
FloatPoint2_SetZeroIfNear(v, epsilon) ==
    LET mask == XMVectorLess(XMVectorAbs(v), XMVectorReplicate(epsilon))
        selected == XMVectorSelect(v, XMVectorZero, mask)
    IN  v

\* An ordering by magnitude instead of by lane.
FloatPoint_Less_ByMagnitude(c, v, r) ==
    FLess(XMVectorGetX(XMVectorNDot(c, v, v)), XMVectorGetX(XMVectorNDot(c, r, r)))
\* Comparators
FloatPoint_Less(c, v, r) ==
    CASE c = 2 -> XMVectorNLess(2, v, r)
      [] c = 3 -> XMVectorNLess(3, v, r)
      [] c = 4 -> XMVectorNLess(4, v, r)
FloatPoint_LessOrEqual(c, v, r) ==
    CASE c = 2 -> XMVectorNLessOrEqual(2, v, r)
      [] c = 3 -> XMVectorNLessOrEqual(3, v, r)
      [] c = 4 -> XMVectorNLessOrEqual(4, v, r)
\* A greater-than that holds for equal vectors as well.
FloatPoint_Greater_OrEqual(c, v, r) == \A i \in 1..c : FLessEq(r[i], v[i])
FloatPoint_Greater(c, v, r) ==
    CASE c = 2 -> XMVectorNGreater(2, v, r)
      [] c = 3 -> XMVectorNGreater(3, v, r)
      [] c = 4 -> XMVectorNGreater(4, v, r)
FloatPoint_GreaterOrEqual(c, v, r) ==
    CASE c = 2 -> XMVectorNGreaterOrEqual(2, v, r)
      [] c = 3 -> XMVectorNGreaterOrEqual(3, v, r)
      [] c = 4 -> XMVectorNGreaterOrEqual(4, v, r)
FloatPoint_Equal(c, v, r) ==
    CASE c = 2 -> XMVectorNEqual(2, v, r)
      [] c = 3 -> XMVectorNEqual(3, v, r)
      [] c = 4 -> XMVectorNEqual(4, v, r)
\* An inequality that needs every lane to differ.
FloatPoint_NotEqual_EveryLane(c, v, r) == \A i \in 1..c : ~FEq(v[i], r[i])
FloatPoint_NotEqual(c, v, r) ==
    CASE c = 2 -> XMVectorNNotEqual(2, v, r)
      [] c = 3 -> XMVectorNNotEqual(3, v, r)
      [] c = 4 -> XMVectorNNotEqual(4, v, r)

\* float DotProduct(vecIn) const: the float d that assert(!isnan(d)) tests
FloatPoint_DotProduct(c, v, vecIn) ==
    CASE c = 2 -> XMVectorGetX(XMVectorNDot(2, v, vecIn))
      [] c = 3 -> XMVectorGetX(XMVectorNDot(3, v, vecIn))
      [] c = 4 -> XMVectorGetX(XMVectorNDot(4, v, vecIn))
\* CrossProduct(vecIn) const: XMVector3Cross in FloatPoint2 and FloatPoint3
FloatPoint_CrossProduct(c, v, vecIn) ==
    CASE c = 2 -> FloatPoint_XMVECTOR(2, XMVector3Cross(v, vecIn))
      [] c = 3 -> FloatPoint_XMVECTOR(3, XMVector3Cross(v, vecIn))
\* static DotProduct(vec1In, vec2In): the XMVECTOR is converted to the class
FloatPoint_Static_DotProduct(c, vec1In, vec2In) ==
    CASE c = 2 -> FloatPoint_XMVECTOR(2, XMVectorNDot(2, vec1In, vec2In))
      [] c = 3 -> FloatPoint_XMVECTOR(3, XMVectorNDot(3, vec1In, vec2In))
      [] c = 4 -> FloatPoint_XMVECTOR(4, XMVectorNDot(4, vec1In, vec2In))
\* static CrossProduct(vec1In, vec2In)
FloatPoint_Static_CrossProduct(c, vec1In, vec2In) ==
    CASE c = 2 -> FloatPoint_XMVECTOR(2, XMVector2Cross(vec1In, vec2In))
      [] c = 3 -> FloatPoint_XMVECTOR(3, XMVector3Cross(vec1In, vec2In))
\* The free functions King::Dot, King::Cross and King::Normalize
King_Dot(c, vec1In, vec2In) ==
    CASE c = 2 -> XMVectorGetX(FloatPoint_XMVECTOR(2, XMVectorNDot(2, vec1In, vec2In)))
      [] c = 3 -> XMVectorGetX(FloatPoint_XMVECTOR(3, XMVectorNDot(3, vec1In, vec2In)))
      [] c = 4 -> XMVectorGetX(FloatPoint_XMVECTOR(4, XMVectorNDot(4, vec1In, vec2In)))
King_Cross(c, vec1In, vec2In) ==
    CASE c = 2 -> FloatPoint_XMVECTOR(2, XMVector2Cross(vec1In, vec2In))
      [] c = 3 -> FloatPoint_XMVECTOR(3, XMVector3Cross(vec1In, vec2In))
King_Normalize(c, vec1In) ==
    CASE c = 2 -> FloatPoint_XMVECTOR(2, XMVectorNNormalize(2, vec1In))
      [] c = 3 -> FloatPoint_XMVECTOR(3, XMVectorNNormalize(3, vec1In))
      [] c = 4 -> FloatPoint_XMVECTOR(4, XMVectorNNormalize(4, vec1In))

\* virtual float GetMagnitude() const
FloatPoint_GetMagnitude(c, v) ==
    CASE c = 2 -> XMVectorGetX(XMVectorNLength(2, v))
      [] c = 3 -> XMVectorGetX(XMVectorNLength(3, v))
      [] c = 4 -> XMVectorGetX(XMVectorNLength(4, v))
\* static Magnitude(pointIn)
FloatPoint_Static_Magnitude(c, pointIn) ==
    CASE c = 2 -> XMVectorGetX(XMVectorNLength(2, pointIn))
      [] c = 3 -> XMVectorGetX(XMVectorNLength(3, pointIn))
      [] c = 4 -> XMVectorGetX(XMVectorNLength(4, pointIn))
\* virtual void MakeNormalize(): the receiver's storage after the call
FloatPoint_MakeNormalize(c, v) ==
    CASE c = 2 -> XMVectorNNormalize(2, v)
      [] c = 3 -> XMVectorNNormalize(3, v)
      [] c = 4 -> XMVectorNNormalize(4, v)
\* static Normal(pointIn)
FloatPoint_Static_Normal(c, pointIn) ==
    CASE c = 2 -> FloatPoint_XMVECTOR(2, XMVectorNNormalize(2, pointIn))
      [] c = 3 -> FloatPoint_XMVECTOR(3, XMVectorNNormalize(3, pointIn))
      [] c = 4 -> FloatPoint_XMVECTOR(4, XMVectorNNormalize(4, pointIn))

\* operator- () const
FloatPoint_Negate(c, v) ==
    CASE c = 2 -> FloatPoint_XMVECTOR(2, XMVectorNegate(v))
      [] c = 3 -> FloatPoint_XMVECTOR(3, XMVectorNegate(v))
      [] c = 4 -> FloatPoint_XMVECTOR(4, XMVectorNegate(v))

\* A product that sums the lane products into every lane, as a dot product.
FloatPoint_Arith_DotForTimes(c, o, v, p) ==
    CASE o = "+" -> FloatPoint_XMVECTOR(c, XMVectorAdd(v, p))
      [] o = "-" -> FloatPoint_XMVECTOR(c, XMVectorSubtract(v, p))
      [] o = "*" -> FloatPoint_XMVECTOR(c, XMVectorNDot(c, v, p))
      [] o = "/" -> FloatPoint_XMVECTOR(c, XMVectorDivide(v, p))
\* operator+, operator-, operator* and operator/ with a vector operand p (a
\* FloatPoint<c> or an XMVECTOR): the XMVECTOR result is converted to the
\* class.
FloatPoint_Arith(c, o, v, p) ==
    CASE o = "+" -> FloatPoint_XMVECTOR(c, XMVectorAdd(v, p))
      [] o = "-" -> FloatPoint_XMVECTOR(c, XMVectorSubtract(v, p))
      [] o = "*" -> FloatPoint_XMVECTOR(c, XMVectorMultiply(v, p))
      [] o = "/" -> FloatPoint_XMVECTOR(c, XMVectorDivide(v, p))
\* operator+=, operator-=, operator*= and operator/=: v = XMVector...(v, p)
FloatPoint_ArithAssign(c, o, v, p) ==
    CASE o = "+" -> XMVectorAdd(v, p)
      [] o = "-" -> XMVectorSubtract(v, p)
      [] o = "*" -> XMVectorMultiply(v, p)
      [] o = "/" -> XMVectorDivide(v, p)
\* The vector that the forms with a float s put in the place of p.
\* FloatPoint2: FloatPoint2(s), and XMVectorScale(v, s) in operator*=.
\* FloatPoint3: _mm_set_ps1(s), and XMVectorScale(v, s) in operator* and
\* operator*=; the class declares no operator/=(float), so a /= s converts s
\* with FloatPoint3(float xyz) and calls operator/=(const FloatPoint3&).
\* FloatPoint4: XMVectorReplicate(s), and XMVectorScale(v, s).
FloatPoint_ScalarOperand(c, o, compound, s) ==
    CASE c = 2 -> IF compound /\ o = "*" THEN XMVectorReplicate(s)
                  ELSE XMVectorSet(s, s, Zero, Zero)
      [] c = 3 -> IF compound /\ o = "/" THEN XMVectorSet(s, s, s, Zero)
                  ELSE XMVectorReplicate(s)
      [] c = 4 -> XMVectorReplicate(s)

\* ProjectOnToVector(vecIn) const { auto n = Normal(vecIn);
\*   if (XMVector<c>IsNaN(n)) return float<c>(0.f);
\*   return n * XMVector<c>Dot(v, n.GetVecConst()); }
FloatPoint_ProjectOnToVector(c, v, vecIn) ==
    LET n == FloatPoint_Static_Normal(c, vecIn)
    IN  IF XMVectorNIsNaN(c, n) THEN XMVectorZero
        ELSE FloatPoint_Arith(c, "*", n, XMVectorNDot(c, v, n))

\* static Average(arrayIn), past its assert: { FloatPoint<c> ave;
\*   for (const auto& each : arrayIn) ave += each;
\*   ave /= (float)arrayIn.size(); return ave; }
FloatPoint_Static_Average(c, arrayIn) ==
    LET sum[i \in 0..Len(arrayIn)] ==
            IF i = 0 THEN XMVectorZero
            ELSE FloatPoint_ArithAssign(c, "+", sum[i - 1], arrayIn[i])
        size == Flt(Len(arrayIn))
    IN  FloatPoint_ArithAssign(c, "/", sum[Len(arrayIn)],
                               FloatPoint_ScalarOperand(c, "/", TRUE, size))

-----------------------------------------------------------------------------
(* The inputs of the calls *)

Lanes == {Flt(n) : n \in -MaxLane..MaxLane} \cup {NaN, PInf, NInf}
\* what the storage lanes beyond the logical width hold when the object was
\* built from a raw XMVECTOR / XMVECTORF32
PadLanes == {Zero, One, NaN}
Epsilons == {Flt(e) : e \in 1..MaxEps}
PairLanes == {Flt(n) : n \in 0..MaxPairLane} \cup {NaN}
\* The storages of a FloatPoint<c> whose c logical lanes are in L and whose
\* other lanes are in P.
Storages(c, L, P) ==
    {XMVectorSet(x, y, z, w) : x \in L, y \in L,
                               z \in IF c >= 3 THEN L ELSE P,
                               w \in IF c = 4 THEN L ELSE P}

\* The callers of Random: two threads of the process.
Threads == {1, 2}
\* The two functions that hold a static bool once: Random() and
\* Random(float min, float max).
RandomFlags == {"Random()", "Random(float,float)"}
\* The overloads a caller can name: the function whose flag each one tests
\* and how many times it runs that function (float2 and float3 call
\* Random(min, max) once per lane).
RandomOverloads ==
    {[name |-> "Random()", flag |-> "Random()", draws |-> 1],
     [name |-> "Random(float,float)", flag |-> "Random(float,float)", draws |-> 1],
     [name |-> "Random(float2,float2)", flag |-> "Random(float,float)", draws |-> 2],
     [name |-> "Random(float3,float3)", flag |-> "Random(float,float)", draws |-> 3]}

-----------------------------------------------------------------------------
(* State: one receiver object and the call made on it.  A run is one use of *)
(* the library: construct the operands, call one member, read the result.   *)

VARIABLES
    pc,         \* "main" -> "constructed" -> "returned" or "aborted"
    cls,        \* the number of logical lanes of the receiver's class
    self,       \* the receiver's storage v, four lanes
    old,        \* the receiver's storage when the last call was entered
    rhs,        \* the vector argument of the last call
    epsilon,    \* the float argument of the last call
    op,         \* the member last called
    retB,       \* its bool return value
    retV,       \* its vector return value
    retF,       \* its float return value
    once,       \* the static bool once of Random() and of Random(float, float)
    seeded,     \* how often each thread has called srand under each flag
    drawn,      \* how often rand() has been called
    stream,     \* how often rand() has been called since the last srand
    thread      \* where each thread is in its call of Random

vars == <<pc, cls, self, old, rhs, epsilon, op, retB, retV, retF,
          once, seeded, drawn, stream, thread>>

\* Before the operands are constructed; the objects are as FloatPoint2()
\* { SetZero(); } leaves them.
Init ==
    /\ pc = "main"
    /\ cls = 2
    /\ self = XMVectorZero
    /\ old = XMVectorZero
    /\ rhs = XMVectorZero
    /\ epsilon = Zero
    /\ op = "main"
    /\ retB = FALSE
    /\ retV = XMVectorZero
    /\ retF = Zero
    /\ once = [f \in RandomFlags |-> TRUE]
    /\ seeded = [t \in Threads |-> [f \in RandomFlags |-> 0]]
    /\ drawn = 0
    /\ stream = 0
    /\ thread = [t \in Threads |-> [pc |-> "idle", overload |-> "none", flag |-> "none",
                                    left |-> 0, calls |-> 0]]

\* The receiver of class FloatPoint<c> and the argument have been built.
Constructed(name, c, v, r) ==
    /\ pc' = "constructed"
    /\ op' = name
    /\ cls' = c
    /\ self' = v
    /\ old' = v
    /\ rhs' = r
    /\ epsilon' = Zero
    /\ retB' = FALSE
    /\ retV' = XMVectorZero
    /\ retF' = Zero
    /\ UNCHANGED <<once, seeded, drawn, stream, thread>>

\* A call returns: the storage it leaves in the receiver, the vector and
\* float arguments it was given (the defaults when it takes none), and its
\* bool, vector and float return values.
Returned(name, v, arg, e, b, rv, rf) ==
    /\ pc' = "returned"
    /\ op' = name
    /\ old' = self
    /\ self' = v
    /\ rhs' = arg
    /\ epsilon' = e
    /\ retB' = b
    /\ retV' = rv
    /\ retF' = rf
    /\ UNCHANGED <<cls, once, seeded, drawn, stream, thread>>

\* a call on the receiver and the argument rhs, which it does not change
ReturnedBool(name, b) == Returned(name, self, rhs, Zero, b, XMVectorZero, Zero)
ReturnedVector(name, rv) == Returned(name, self, rhs, Zero, FALSE, rv, Zero)
ReturnedFloat(name, rf) == Returned(name, self, rhs, Zero, FALSE, XMVectorZero, rf)

\* A failed assert() ends the run.
Aborted(name) ==
    /\ pc' = "aborted"
    /\ op' = name
    /\ UNCHANGED <<cls, self, old, rhs, epsilon, retB, retV, retF>>
    /\ UNCHANGED <<once, seeded, drawn, stream, thread>>

-----------------------------------------------------------------------------
(* Calls on one vector *)

\* FloatPoint2(x, y) { Set(x, y); }, FloatPoint3(x, y, z) { Set(x, y, z); },
\* FloatPoint4(x, y, z, w) { Set(x, y, z, w); }: the other lanes are 0.f
NewFloatPoint ==
    /\ pc = "main"
    /\ \E c \in {2, 3, 4} : \E v \in Storages(c, Lanes, {Zero}) :
        Constructed("FloatPoint(x,...)", c, v, XMVectorZero)

\* FloatPoint2(const XMVECTOR&) { v = vecIn; } and FloatPoint3(const
\* XMVECTORF32) { v = vecIn.v; }: the other lanes are the caller's
NewFloatPointFromXMVECTOR ==
    /\ pc = "main"
    /\ \E c \in {2, 3} : \E v \in Storages(c, Lanes, PadLanes) :
        Constructed("FloatPoint(vecIn)", c, v, XMVectorZero)

\* FloatPoint<c>(const std::vector<float>& f) for an f of 0 to 4 elements:
\*   FloatPoint2: { if (f.size() > 1) v = XMVectorSet(f[0], f[1], 0.f, 0.f); }
\*     with no base or member initialiser, so that v is left uninitialised
\*     otherwise;
\*   FloatPoint3: { v = XMVectorSet(f[0], f[1], f[2], 0.f); } after the base
\*     FloatPoint2() { SetZero(); }, with no test of f.size();
\*   FloatPoint4: { if (f.size() > 3) v = XMVectorSet(f[0], f[1], f[2], f[3]); }
\*     after the base FloatPoint2() { SetZero(); }.
\* An uninitialised lane and an element read past the end of f hold any
\* value (garbage); the read past the end may also end the run.  Kept with
\* the call: the first elements of f (0 where there is none), f.size(), and
\* whether an element at an index >= f.size() was read.
NewFloatPointFromVector ==
    /\ pc = "main"
    /\ \E c \in {2, 3, 4}, n \in 0..4 :
        \E f \in [1..n -> {One, Flt(2)}], garbage \in Storages(4, PadLanes, PadLanes) :
            LET at(i) == IF i <= n THEN f[i] ELSE garbage[i]
                given == [i \in 1..4 |-> IF i <= n THEN f[i] ELSE Zero]
                past == c = 3 /\ n < 3
                v == CASE c = 2 -> IF n > 1 THEN XMVectorSet(f[1], f[2], Zero, Zero)
                                   ELSE garbage
                       [] c = 3 -> XMVectorSet(at(1), at(2), at(3), Zero)
                       [] c = 4 -> IF n > 3 THEN XMVectorSet(f[1], f[2], f[3], f[4])
                                   ELSE XMVectorZero
            IN  /\ pc' \in IF past THEN {"constructed", "aborted"} ELSE {"constructed"}
                /\ op' = "FloatPoint(vector<float>)"
                /\ cls' = c
                /\ self' = v
                /\ old' = v
                /\ rhs' = given
                /\ epsilon' = Flt(n)
                /\ retB' = past
                /\ retV' = XMVectorZero
                /\ retF' = Zero
                /\ UNCHANGED <<once, seeded, drawn, stream, thread>>

OperatorBool ==
    /\ pc = "constructed"
    /\ Returned("operator bool", self, XMVectorZero, Zero, FloatPoint_bool(cls, self),
                XMVectorZero, Zero)

OperatorNot ==
    /\ pc = "constructed"
    /\ Returned("operator!", self, XMVectorZero, Zero, FloatPoint_not(cls, self),
                XMVectorZero, Zero)

IsZero ==
    /\ pc = "constructed"
    /\ Returned("IsZero", self, XMVectorZero, Zero, FloatPoint_IsZero(cls, self),
                XMVectorZero, Zero)

\* On a receiver of any of the three classes the call resolves to the member
\* of FloatPoint2.
IsZeroOrNearZero ==
    /\ pc = "constructed"
    /\ \E e \in Epsilons :
        Returned("IsZeroOrNearZero", self, XMVectorZero, e,
                 FloatPoint2_IsZeroOrNearZero(self, e), XMVectorZero, Zero)

IsOrNearZero ==
    /\ pc = "constructed"
    /\ cls \in {3, 4}
    /\ \E e \in Epsilons :
        Returned("IsOrNearZero", self, XMVectorZero, e,
                 FloatPoint_IsOrNearZero(cls, self, e), XMVectorZero, Zero)

\* On a receiver of any of the three classes the call resolves to the member
\* of FloatPoint2.
SetZeroIfNear ==
    /\ pc = "constructed"
    /\ \E e \in Epsilons :
        Returned("SetZeroIfNear", FloatPoint2_SetZeroIfNear(self, e), XMVectorZero, e,
                 FALSE, XMVectorZero, Zero)

\* static float SumComponents(const FloatPoint<c> vec1In)
\* { return XMVectorGetX(XMVectorSum(vec1In)); }, the same in the three
\* classes
SumComponents ==
    /\ pc = "constructed"
    /\ ReturnedFloat("SumComponents", XMVectorGetX(XMVectorSum(self)))

\* FloatPoint3::operator FloatPoint2() { return FloatPoint2(v); } and
\* FloatPoint4::operator FloatPoint2() / operator FloatPoint3()
\* { return FloatPoint3(v); }: the narrower object is built from the raw
\* storage
OperatorFloatPoint ==
    /\ pc = "constructed"
    /\ \/ /\ cls \in {3, 4}
          /\ ReturnedVector("operator FloatPoint2", FloatPoint_XMVECTOR(2, self))
       \/ /\ cls = 4
          /\ ReturnedVector("operator FloatPoint3", FloatPoint_XMVECTOR(3, self))

\* FloatPoint3 c(a) and FloatPoint4 c(a) for a narrower a: the argument
\* binds to its base XMVECTORF32, FloatPoint3(const XMVECTORF32 vecIn)
\* { v = vecIn.v; } and FloatPoint4(const XMVECTORF32 & vecIn) { v = vecIn.v; }
FloatPointFromXMVECTORF32 ==
    /\ pc = "constructed"
    /\ \/ /\ cls = 2
          /\ ReturnedVector("FloatPoint3(XMVECTORF32)", self)
       \/ /\ cls \in {2, 3}
          /\ ReturnedVector("FloatPoint4(XMVECTORF32)", self)

Next ==
    \/ NewFloatPoint
    \/ NewFloatPointFromXMVECTOR
    \/ NewFloatPointFromVector
    \/ OperatorBool
    \/ OperatorNot
    \/ IsZero
    \/ IsZeroOrNearZero
    \/ IsOrNearZero
    \/ SetZeroIfNear
    \/ SumComponents
    \/ OperatorFloatPoint
    \/ FloatPointFromXMVECTORF32

Spec == Init /\ [][Next]_vars

-----------------------------------------------------------------------------
(* Calls on two vectors of one class: the receiver a and the argument b *)

NewPair ==
    /\ pc = "main"
    /\ \E c \in {2, 3, 4} :
        \E a \in Storages(c, PairLanes, {Zero}), b \in Storages(c, PairLanes, {Zero}) :
            Constructed("FloatPoint(x,...) pair", c, a, b)

OperatorLess ==
    /\ pc = "constructed"
    /\ ReturnedBool("operator<", FloatPoint_Less(cls, self, rhs))

OperatorLessOrEqual ==
    /\ pc = "constructed"
    /\ ReturnedBool("operator<=", FloatPoint_LessOrEqual(cls, self, rhs))

OperatorGreater ==
    /\ pc = "constructed"
    /\ ReturnedBool("operator>", FloatPoint_Greater(cls, self, rhs))

OperatorGreaterOrEqual ==
    /\ pc = "constructed"
    /\ ReturnedBool("operator>=", FloatPoint_GreaterOrEqual(cls, self, rhs))

OperatorEqual ==
    /\ pc = "constructed"
    /\ ReturnedBool("operator==", FloatPoint_Equal(cls, self, rhs))

OperatorNotEqual ==
    /\ pc = "constructed"
    /\ ReturnedBool("operator!=", FloatPoint_NotEqual(cls, self, rhs))

NextPair ==
    \/ NewPair
    \/ OperatorLess
    \/ OperatorLessOrEqual
    \/ OperatorGreater
    \/ OperatorGreaterOrEqual
    \/ OperatorEqual
    \/ OperatorNotEqual

SpecPair == Init /\ [][NextPair]_vars

-----------------------------------------------------------------------------
(* Products, magnitudes and normals of vectors a (the receiver) and b *)

\* a.DotProduct(b): assert(!isnan(d)) is compiled out by NDEBUG
DotProduct ==
    /\ pc = "constructed"
    /\ \E NDEBUG \in BOOLEAN :
        LET d == FloatPoint_DotProduct(cls, self, rhs)
        IN  IF ~NDEBUG /\ isnan(d)
            THEN Aborted("DotProduct")
            ELSE ReturnedFloat("DotProduct", d)

\* FloatPoint<c>::DotProduct(a, b)
StaticDotProduct ==
    /\ pc = "constructed"
    /\ ReturnedVector("static DotProduct", FloatPoint_Static_DotProduct(cls, self, rhs))

\* King::Dot(a, b)
Dot ==
    /\ pc = "constructed"
    /\ ReturnedFloat("Dot", King_Dot(cls, self, rhs))

\* a.CrossProduct(b)
CrossProduct ==
    /\ pc = "constructed"
    /\ cls \in {2, 3}
    /\ ReturnedVector("CrossProduct", FloatPoint_CrossProduct(cls, self, rhs))

\* FloatPoint<c>::CrossProduct(a, b)
StaticCrossProduct ==
    /\ pc = "constructed"
    /\ cls \in {2, 3}
    /\ ReturnedVector("static CrossProduct", FloatPoint_Static_CrossProduct(cls, self, rhs))

\* King::Cross(a, b)
Cross ==
    /\ pc = "constructed"
    /\ cls \in {2, 3}
    /\ ReturnedVector("Cross", King_Cross(cls, self, rhs))

\* a.GetMagnitude()
GetMagnitude ==
    /\ pc = "constructed"
    /\ HasExactSqrt(XMVectorGetX(XMVectorNDot(cls, self, self)))
    /\ Returned("GetMagnitude", self, XMVectorZero, Zero, FALSE, XMVectorZero,
                FloatPoint_GetMagnitude(cls, self))

\* FloatPoint<c>::Magnitude(a)
StaticMagnitude ==
    /\ pc = "constructed"
    /\ HasExactSqrt(XMVectorGetX(XMVectorNDot(cls, self, self)))
    /\ Returned("static Magnitude", self, XMVectorZero, Zero, FALSE, XMVectorZero,
                FloatPoint_Static_Magnitude(cls, self))

\* a.MakeNormalize()
MakeNormalize ==
    /\ pc = "constructed"
    /\ HasExactSqrt(XMVectorGetX(XMVectorNDot(cls, self, self)))
    /\ Returned("MakeNormalize", FloatPoint_MakeNormalize(cls, self), XMVectorZero, Zero,
                FALSE, XMVectorZero, Zero)

\* a.Normalize() { v = XMVector<c>Normalize(v); }, the alternate naming
Normalize ==
    /\ pc = "constructed"
    /\ HasExactSqrt(XMVectorGetX(XMVectorNDot(cls, self, self)))
    /\ Returned("Normalize", XMVectorNNormalize(cls, self), XMVectorZero, Zero,
                FALSE, XMVectorZero, Zero)

\* FloatPoint<c>::Normal(a)
StaticNormal ==
    /\ pc = "constructed"
    /\ HasExactSqrt(XMVectorGetX(XMVectorNDot(cls, self, self)))
    /\ Returned("static Normal", self, XMVectorZero, Zero, FALSE,
                FloatPoint_Static_Normal(cls, self), Zero)

\* King::Normalize(a)
FreeNormalize ==
    /\ pc = "constructed"
    /\ HasExactSqrt(XMVectorGetX(XMVectorNDot(cls, self, self)))
    /\ Returned("King::Normalize", self, XMVectorZero, Zero, FALSE,
                King_Normalize(cls, self), Zero)

\* a.ProjectOnToVector(b)
ProjectOnToVector ==
    /\ pc = "constructed"
    /\ HasExactSqrt(XMVectorGetX(XMVectorNDot(cls, rhs, rhs)))
    /\ ReturnedVector("ProjectOnToVector", FloatPoint_ProjectOnToVector(cls, self, rhs))

\* FloatPoint<c>::Average(arrayIn) for an array of none, one or two of the
\* vectors; assert(arrayIn.size()) is compiled out by NDEBUG.  The float
\* kept with the call is (float)arrayIn.size().
Average ==
    /\ pc = "constructed"
    /\ \E arrayIn \in {<<>>, <<self>>, <<self, rhs>>} :
        \E NDEBUG \in IF Len(arrayIn) = 0 THEN BOOLEAN ELSE {TRUE} :
            IF ~NDEBUG /\ Len(arrayIn) = 0
            THEN Aborted("Average")
            ELSE Returned("Average", self, rhs, Flt(Len(arrayIn)), FALSE,
                          FloatPoint_Static_Average(cls, arrayIn), Zero)

\* -a
OperatorNegate ==
    /\ pc = "constructed"
    /\ ReturnedVector("operator-()", FloatPoint_Negate(cls, self))

\* a + b, a - b, a * b, a / b, and the same with a float s in the place of
\* b, which is kept with the call together with the vector made of it; the
\* float is the one a caller's b = FloatPoint<c>(s) was built from
OperatorArith ==
    /\ pc = "constructed"
    /\ \E o \in {"+", "-", "*", "/"} :
        \/ ReturnedVector("operator" \o o, FloatPoint_Arith(cls, o, self, rhs))
        \/ \E s \in {x \in {XMVectorGetX(rhs)} : \A i \in 1..cls : rhs[i] = x} :
            LET p == FloatPoint_ScalarOperand(cls, o, FALSE, s)
            IN  Returned("operator" \o o \o "(float)", self, p, s, FALSE,
                         FloatPoint_Arith(cls, o, self, p), Zero)

\* a += b, a -= b, a *= b, a /= b, and the same with a float s: the result
\* is stored in the receiver and returned
OperatorArithAssign ==
    /\ pc = "constructed"
    /\ \E o \in {"+", "-", "*", "/"} :
        \/ LET stored == FloatPoint_ArithAssign(cls, o, self, rhs)
           IN  Returned("operator" \o o \o "=", stored, rhs, Zero, FALSE, stored, Zero)
        \/ \E s \in {x \in {XMVectorGetX(rhs)} : \A i \in 1..cls : rhs[i] = x} :
            LET p == FloatPoint_ScalarOperand(cls, o, TRUE, s)
                stored == FloatPoint_ArithAssign(cls, o, self, p)
            IN  Returned("operator" \o o \o "=(float)", stored, p, s, FALSE, stored, Zero)

NextProduct ==
    \/ NewPair
    \/ DotProduct
    \/ StaticDotProduct
    \/ Dot
    \/ CrossProduct
    \/ StaticCrossProduct
    \/ Cross
    \/ GetMagnitude
    \/ StaticMagnitude
    \/ MakeNormalize
    \/ Normalize
    \/ StaticNormal
    \/ FreeNormalize
    \/ ProjectOnToVector
    \/ Average
    \/ OperatorNegate
    \/ OperatorArith
    \/ OperatorArithAssign

SpecProduct == Init /\ [][NextProduct]_vars

-----------------------------------------------------------------------------
(* Quaternions.  A quaternion is stored <<x, y, z, w>> in the four lanes.   *)

\* g_XMEpsilon = 1.192092896e-7f = 2^-23
g_XMEpsilon == Frac(1, 8388608)

XMQuaternionIdentity == XMVectorSet(Zero, Zero, Zero, One)

\* XMVector4IsNaN
XMQuaternionIsNaN(Q) == XMVectorNIsNaN(4, Q)

\* XMQuaternionMultiply(Q1, Q2) returns the product Q2*Q1 of the header
\* comment: each lane is the sum written there.
XMQuaternionMultiply(Q1, Q2) ==
    XMVectorSet(
        FAdd(FSub(FAdd(FMul(Q2[4], Q1[1]), FMul(Q2[1], Q1[4])), FMul(Q2[3], Q1[2])),
             FMul(Q2[2], Q1[3])),
        FAdd(FAdd(FSub(FMul(Q2[4], Q1[2]), FMul(Q2[1], Q1[3])), FMul(Q2[2], Q1[4])),
             FMul(Q2[3], Q1[1])),
        FAdd(FSub(FAdd(FMul(Q2[4], Q1[3]), FMul(Q2[1], Q1[2])), FMul(Q2[2], Q1[1])),
             FMul(Q2[3], Q1[4])),
        FSub(FSub(FSub(FMul(Q2[4], Q1[4]), FMul(Q2[1], Q1[1])), FMul(Q2[2], Q1[2])),
             FMul(Q2[3], Q1[3])))

\* Q * (-1, -1, -1, 1)
XMQuaternionConjugate(Q) == XMVectorSet(FNeg(Q[1]), FNeg(Q[2]), FNeg(Q[3]), Q[4])

\* conjugate / |Q|^2, or the zero vector where |Q|^2 <= g_XMEpsilon
XMQuaternionInverse(Q) ==
    LET L == XMVectorNDot(4, Q, Q)
        Conjugate == XMQuaternionConjugate(Q)
        Control == XMVectorLessOrEqual(L, XMVectorReplicate(g_XMEpsilon))
        Result == XMVectorDivide(Conjugate, L)
    IN XMVectorSelect(Result, XMVectorZero, Control)

\* XMVector3InverseRotate: the rotation by the conjugate.
XMVector3InverseRotate(V, RotationQuaternion) ==
    LET A == XMVectorSetW(V, Zero)
        Result == XMQuaternionMultiply(RotationQuaternion, A)
    IN XMQuaternionMultiply(Result, XMQuaternionConjugate(RotationQuaternion))
\* XMVector3Rotate(V, RotationQuaternion): A is V with w cleared,
\* Result = XMQuaternionMultiply(conjugate, A), then
\* XMQuaternionMultiply(Result, RotationQuaternion).
XMVector3Rotate(V, RotationQuaternion) ==
    LET A == XMVectorSetW(V, Zero)
        Q == XMQuaternionConjugate(RotationQuaternion)
        Result == XMQuaternionMultiply(Q, A)
    IN XMQuaternionMultiply(Result, RotationQuaternion)

\* An angle is kept as a multiple of an arccosine: the tuple <<k, n, d>> is
\* the angle k * acos(n / d), for -1 <= n / d <= 1, and NaN when n / d is NaN.
\* XMScalarACos(Value) takes |Value|, clamps 1 - |Value| at 0 from below and
\* returns the arccosine for a Value >= 0 and pi minus it otherwise: the
\* arccosine of Value clamped to [-1, 1].
XMScalarACos(Value) ==
    LET c == IF isnan(Value) THEN NaN
             ELSE IF FLess(One, Value) THEN One
             ELSE IF FLess(Value, FNeg(One)) THEN FNeg(One)
             ELSE Value
    IN  <<1, c[1], c[2]>>

\* explicit Quaternion(const XMVECTOR& vec) { v = vec; }
Quaternion_XMVECTOR(vec) == vec

\* A Validate() that lets the NaN through.
Quaternion_Validate_Propagating(v) == v
\* void Validate() { if (XMQuaternionIsNaN(v)) v = XMQuaternionIdentity(); }
Quaternion_Validate(v) == IF XMQuaternionIsNaN(v) THEN XMQuaternionIdentity ELSE v

\* void Set(const Quaternion& qIn) { v = qIn; Validate(); }
Quaternion_Set(qIn) == Quaternion_Validate(qIn)

\* Quaternion(const Quaternion& in) { Set(in); }: the copy that initialises a
\* by-value Quaternion parameter from the caller's object.
Quaternion_Copy(in) == Quaternion_Set(in)

\* Quaternion Inverse() const
Quaternion_Inverse(v) == Quaternion_XMVECTOR(XMQuaternionInverse(v))

\* A conjugate that negates the scalar part as well.
Quaternion_Conjugate_AllLanes(v) == XMVectorSet(FNeg(v[1]), FNeg(v[2]), FNeg(v[3]), FNeg(v[4]))
\* Quaternion operator~ (void) const
Quaternion_Conjugate(v) == Quaternion_XMVECTOR(XMQuaternionConjugate(v))

\* operator bool() { return abs(GetW()) < 0.999998f ? true : false; } and
\* operator !() { return abs(GetW()) >= 0.999998f ? true : false; }; the
\* float nearest to 0.999998 is 1 - 34 * 2^-24
Quaternion_bool(v) == FLess(FAbs(v[4]), Frac(8388591, 8388608))
Quaternion_not(v) == FLessEq(Frac(8388591, 8388608), FAbs(v[4]))

\* The operators below take the parameter object rhs (r): the copy of the
\* caller's object, or the temporary the caller passed.
\* Quaternion operator* (const Quaternion rhs) const
Quaternion_Multiply(v, r) == Quaternion_XMVECTOR(XMQuaternionMultiply(v, r))

\* A subtraction lane by lane.
Quaternion_Subtract_PerLane(v, r) == XMVectorSubtract(v, r)
\* Quaternion operator- (const Quaternion rhs) const { return *this * rhs.Inverse(); }
Quaternion_Subtract(v, r) == Quaternion_Multiply(v, Quaternion_Inverse(r))

\* Quaternion operator/ (const Quaternion rhs) const { return *this * rhs.Inverse(); }
Quaternion_Divide(v, r) == Quaternion_Multiply(v, Quaternion_Inverse(r))

\* operator/= and operator-=: { *this = *this * rhs.Inverse(); }
\* the defaulted assignment copies the lanes of the product into the receiver
Quaternion_DivideAssign(v, r) == Quaternion_Multiply(v, Quaternion_Inverse(r))
Quaternion_SubtractAssign(v, r) == Quaternion_Multiply(v, Quaternion_Inverse(r))

\* FloatPoint3 operator* (const FloatPoint3 rhs) const
Quaternion_Rotate(v, r) == FloatPoint_XMVECTOR(3, XMVector3Rotate(r, v))

\* Operands: the quaternions with lanes in HalfLanes inside the
\* unit ball (the 24 of length 1 among them do not commute), and the
\* quaternions zero and identity with one lane replaced by NaN.
HalfLanes == {Frac(n, 2) : n \in -MaxHalfLane..MaxHalfLane}
Quaternions ==
    {q \in Storages(4, HalfLanes, {Zero}) : FLessEq(XMVectorGetX(XMVectorNDot(4, q, q)), One)}
    \cup {XMVectorSet(IF k = 1 THEN NaN ELSE b[1], IF k = 2 THEN NaN ELSE b[2],
                       IF k = 3 THEN NaN ELSE b[3], IF k = 4 THEN NaN ELSE b[4]) :
             k \in 1..4, b \in {XMVectorZero, XMQuaternionIdentity}}
\* the vectors a quaternion is applied to
Vectors3 == Storages(3, {Zero, One}, {Zero})

\* void SetAxisAngle(float3 vector, float angleRadians): the body is not in
\* the header; the lanes are (vector * sin(angle / 2), cos(angle / 2)).  The
\* angle 2 * acos(c) has cos(angle / 2) = c and sin(angle / 2) = sqrt(1 - c * c).
Quaternion_SetAxisAngle(vector, angleRadians) ==
    LET c == <<angleRadians[2], angleRadians[3]>>
        s == FSqrt(FSub(One, FMul(c, c)))
    IN  XMVectorSet(FMul(vector[1], s), FMul(vector[2], s), FMul(vector[3], s), c)

\* std::atan2(y, x): the angle of the point (x, y), which is acos(x / |(x, y)|)
\* above the x axis, its negative below, and 0 = acos(1) for atan2(0, 0)
std_atan2(y, x) ==
    LET r == FSqrt(FAdd(FMul(x, x), FMul(y, y)))
        c == IF isnan(x) \/ isnan(y) THEN NaN ELSE IF r = Zero THEN One ELSE FDiv(x, r)
    IN  <<IF FLess(y, Zero) THEN -1 ELSE 1, c[1], c[2]>>

\* Two quaternions a and b are made from their lanes.
NewQuaternionPair ==
    /\ pc = "main"
    /\ \E a \in Quaternions, b \in Quaternions :
        Constructed("Quaternion(vec) pair", 4, Quaternion_XMVECTOR(a), Quaternion_XMVECTOR(b))

\* Quaternion a(axis, angle) { SetAxisAngle(axis, angle); } for the unit axes
\* with lanes among 0, 3/5, 4/5, 1 and their negatives, and the angles
\* 2 * acos(3/5) and 2 * acos(4/5), which lie in (0, pi); b is the identity.
NewAxisAngleQuaternion ==
    /\ pc = "main"
    /\ \E axis \in Storages(3, {Frac(n, 5) : n \in {-5, -4, -3, 0, 3, 4, 5}}, {Zero}),
          angle \in {<<2, n, 5>> : n \in {3, 4}} :
        /\ XMVectorGetX(XMVectorNDot(3, axis, axis)) = One
        /\ Constructed("Quaternion(axis, angle)", 4, Quaternion_SetAxisAngle(axis, angle),
                       XMQuaternionIdentity)

\* a * b
QuaternionMultiply ==
    /\ pc = "constructed"
    /\ ReturnedVector("Quaternion::operator*", Quaternion_Multiply(self, Quaternion_Copy(rhs)))

\* a - b
QuaternionSubtract ==
    /\ pc = "constructed"
    /\ ReturnedVector("Quaternion::operator-", Quaternion_Subtract(self, Quaternion_Copy(rhs)))

\* a / b
QuaternionDivide ==
    /\ pc = "constructed"
    /\ ReturnedVector("Quaternion::operator/", Quaternion_Divide(self, Quaternion_Copy(rhs)))

\* a * b.Inverse(): the temporary is the parameter of operator*
QuaternionMultiplyByInverse ==
    /\ pc = "constructed"
    /\ ReturnedVector("Quaternion::operator* Inverse",
                      Quaternion_Multiply(self, Quaternion_Inverse(rhs)))

\* The compound forms store the result in the receiver and return it.
QuaternionDivideAssign ==
    /\ pc = "constructed"
    /\ LET stored == Quaternion_DivideAssign(self, Quaternion_Copy(rhs))
       IN  Returned("Quaternion::operator/=", stored, rhs, Zero, FALSE, stored, Zero)

QuaternionSubtractAssign ==
    /\ pc = "constructed"
    /\ LET stored == Quaternion_SubtractAssign(self, Quaternion_Copy(rhs))
       IN  Returned("Quaternion::operator-=", stored, rhs, Zero, FALSE, stored, Zero)

\* a.Validate()
QuaternionValidate ==
    /\ pc = "constructed"
    /\ Returned("Quaternion::Validate", Quaternion_Validate(self), XMVectorZero, Zero,
                FALSE, XMVectorZero, Zero)

\* a * v for a FloatPoint3 v, which is kept as the argument of the call
QuaternionRotate ==
    /\ pc = "constructed"
    /\ \E v \in Vectors3 :
        Returned("Quaternion::operator*(FloatPoint3)", self, v, Zero, FALSE,
                 Quaternion_Rotate(self, v), Zero)

\* a.Inverse()
QuaternionInverse ==
    /\ pc = "constructed"
    /\ Returned("Quaternion::Inverse", self, XMVectorZero, Zero, FALSE,
                Quaternion_Inverse(self), Zero)

\* ~a
QuaternionConjugate ==
    /\ pc = "constructed"
    /\ Returned("Quaternion::operator~", self, XMVectorZero, Zero, FALSE,
                Quaternion_Conjugate(self), Zero)

\* a.GetAngleQuaternion() { auto a = 2.0f * XMScalarACos(GetW()); return a; }
\* The calls on a alone are made in the runs where b is the identity.
QuaternionGetAngleQuaternion ==
    /\ pc = "constructed"
    /\ rhs = XMQuaternionIdentity
    /\ LET a == XMScalarACos(self[4])
       IN  ReturnedFloat("Quaternion::GetAngleQuaternion", <<2 * a[1], a[2], a[3]>>)

\* a.GetAxis() { float3 xyz = v; xyz.MakeNormalize(); return xyz; } and
\* a.GetAngleEuler() { auto a = std::atan2(XMVectorGetX(XMVector3Length(v)),
\* XMVectorGetW(v)); return a; }, where the roots are exact
QuaternionGetAxisAngle ==
    /\ pc = "constructed"
    /\ rhs = XMQuaternionIdentity
    /\ HasExactSqrt(XMVectorGetX(XMVectorNDot(3, self, self)))
    /\ \/ ReturnedVector("Quaternion::GetAxis",
                         FloatPoint_MakeNormalize(3, FloatPoint_XMVECTOR(3, self)))
       \/ /\ HasExactSqrt(XMVectorGetX(XMVectorNDot(4, self, self)))
          /\ ReturnedFloat("Quaternion::GetAngleEuler",
                           std_atan2(XMVectorGetX(XMVectorNLength(3, self)), self[4]))

\* bool(a) and !a
QuaternionOperatorBool ==
    /\ pc = "constructed"
    /\ rhs = XMQuaternionIdentity
    /\ \/ ReturnedBool("Quaternion::operator bool", Quaternion_bool(self))
       \/ ReturnedBool("Quaternion::operator!", Quaternion_not(self))

\* The ways of copying a into another Quaternion, whose storage is returned:
\* Quaternion(const Quaternion& in) { Set(in); }, Set(const Quaternion& qIn)
\* { v = qIn; Validate(); }, the defaulted copy and move assignments, which
\* assign the lanes, and Quaternion(Quaternion&& in) { v = std::move(in); }
QuaternionCopy ==
    /\ pc = "constructed"
    /\ rhs = XMQuaternionIdentity
    /\ \/ ReturnedVector("Quaternion(const Quaternion&)", Quaternion_Copy(self))
       \/ ReturnedVector("Quaternion::Set(const Quaternion&)", Quaternion_Set(self))
       \/ ReturnedVector("Quaternion::operator=(const Quaternion&)", self)
       \/ ReturnedVector("Quaternion(Quaternion&&)", self)
       \/ ReturnedVector("Quaternion::operator=(Quaternion&&)", self)

NextQuat ==
    \/ NewQuaternionPair
    \/ NewAxisAngleQuaternion
    \/ QuaternionMultiply
    \/ QuaternionSubtract
    \/ QuaternionDivide
    \/ QuaternionMultiplyByInverse
    \/ QuaternionDivideAssign
    \/ QuaternionSubtractAssign
    \/ QuaternionValidate
    \/ QuaternionRotate
    \/ QuaternionInverse
    \/ QuaternionConjugate
    \/ QuaternionGetAngleQuaternion
    \/ QuaternionGetAxisAngle
    \/ QuaternionOperatorBool
    \/ QuaternionCopy

SpecQuat == Init /\ [][NextQuat]_vars

-----------------------------------------------------------------------------
(* Random: the threads call the overloads; each run of Random() or of       *)
(* Random(min, max) is the steps if (once), srand, once = false, rand.      *)

\* Thread t calls an overload and arrives at if (once) of its first run.
RandomCall(t) ==
    /\ thread[t].pc = "idle"
    /\ thread[t].calls < MaxCalls
    /\ \E o \in RandomOverloads :
        thread' = [thread EXCEPT ![t] = [pc |-> "if", overload |-> o.name, flag |-> o.flag,
                                         left |-> o.draws, calls |-> @.calls + 1]]
    /\ UNCHANGED <<once, seeded, drawn, stream>>
    /\ UNCHANGED <<pc, cls, self, old, rhs, epsilon, op, retB, retV, retF>>

\* A test that is true whatever the flag holds.
RandomTestOnce_Always(t) ==
    /\ thread[t].pc = "if"
    /\ thread' = [thread EXCEPT ![t].pc = "srand"]
    /\ UNCHANGED <<once, seeded, drawn, stream>>
    /\ UNCHANGED <<pc, cls, self, old, rhs, epsilon, op, retB, retV, retF>>

\* if (once)
RandomTestOnce(t) ==
    /\ thread[t].pc = "if"
    /\ thread' = [thread EXCEPT ![t].pc = IF once[thread[t].flag] THEN "srand" ELSE "rand"]
    /\ UNCHANGED <<once, seeded, drawn, stream>>
    /\ UNCHANGED <<pc, cls, self, old, rhs, epsilon, op, retB, retV, retF>>

\* srand((UINT)time(NULL)): the stream starts again
RandomSrand(t) ==
    /\ thread[t].pc = "srand"
    /\ seeded' = [seeded EXCEPT ![t][thread[t].flag] = @ + 1]
    /\ stream' = 0
    /\ thread' = [thread EXCEPT ![t].pc = "clear"]
    /\ UNCHANGED <<once, drawn>>
    /\ UNCHANGED <<pc, cls, self, old, rhs, epsilon, op, retB, retV, retF>>

\* once = false
RandomClearOnce(t) ==
    /\ thread[t].pc = "clear"
    /\ once' = [once EXCEPT ![thread[t].flag] = FALSE]
    /\ thread' = [thread EXCEPT ![t].pc = "rand"]
    /\ UNCHANGED <<seeded, drawn, stream>>
    /\ UNCHANGED <<pc, cls, self, old, rhs, epsilon, op, retB, retV, retF>>

\* float r = (float)rand(); ... return r; the float2 and float3 overloads
\* then run Random(min, max) for their next lane.
RandomRand(t) ==
    /\ thread[t].pc = "rand"
    /\ drawn' = drawn + 1
    /\ stream' = stream + 1
    /\ thread' = [thread EXCEPT ![t].left = @ - 1,
                                ![t].pc = IF thread[t].left > 1 THEN "if" ELSE "idle"]
    /\ UNCHANGED <<once, seeded>>
    /\ UNCHANGED <<pc, cls, self, old, rhs, epsilon, op, retB, retV, retF>>

NextRandom ==
    \E t \in Threads :
        \/ RandomCall(t)
        \/ RandomTestOnce(t)
        \/ RandomSrand(t)
        \/ RandomClearOnce(t)
        \/ RandomRand(t)

SpecRandom == Init /\ [][NextRandom]_vars

-----------------------------------------------------------------------------
(* Min, Max and Clamp of UIntPoint2, IntPoint2 and IntPoint3.  A point is   *)
(* the sequence of its integer lanes u[0..1] or i[0..2].                    *)

\* Min(a, b) { return Point((a.i[0] < b.i[0]) ? a.i[0] : b.i[0], ...); }
King_Min(a, b) == [k \in DOMAIN a |-> IF a[k] < b[k] THEN a[k] ELSE b[k]]

\* Max(a, b) { return Point((a.i[0] > b.i[0]) ? a.i[0] : b.i[0], ...); }
King_Max(a, b) == [k \in DOMAIN a |-> IF a[k] > b[k] THEN a[k] ELSE b[k]]

\* Clamp(c, min, max) { return King::Max(King::Min(c, min), max); }
King_Clamp(c, min, max) == King_Max(King_Min(c, min), max)

\* A call of Clamp(c, min, max) on three points of one class with min <= max
\* in every lane; self is c, old is min, rhs is max, retV the point returned.
Clamp ==
    /\ pc = "main"
    /\ \E T \in {"UIntPoint2", "IntPoint2", "IntPoint3"} :
        LET n == IF T = "IntPoint3" THEN 3 ELSE 2
            lanes == IF T = "UIntPoint2" THEN 0..MaxInt ELSE -MaxInt..MaxInt
        IN  \E c \in [1..n -> lanes], min \in [1..n -> lanes], max \in [1..n -> lanes] :
                /\ \A k \in 1..n : min[k] <= max[k]
                /\ pc' = "returned"
                /\ op' = "Clamp(" \o T \o ")"
                /\ cls' = n
                /\ self' = c
                /\ old' = min
                /\ rhs' = max
                /\ retV' = King_Clamp(c, min, max)
                /\ UNCHANGED <<epsilon, retB, retF>>
                /\ UNCHANGED <<once, seeded, drawn, stream, thread>>

NextClamp == Clamp

SpecClamp == Init /\ [][NextClamp]_vars

-----------------------------------------------------------------------------
(* Claims about the tests of one vector *)

\* the logical lanes of a FloatPoint<c>
Logical(c) == 1..c
IsValidLane(x) == ~isnan(x) /\ ~isinf(x)

\* C2: IsZero() returns true exactly when every logical lane of the receiver
\* (x,y / x,y,z / x,y,z,w) equals 0.
C2_IsZeroIsExactAtEveryWidth ==
    op = "IsZero" => (retB <=> \A i \in Logical(cls) : FEq(self[i], Zero))

\* C3: after SetZeroIfNear(epsilon) every logical lane whose absolute value
\* was below epsilon is exactly 0 and every other lane keeps its value.
C3_NearZeroLanesAreSnapped ==
    op = "SetZeroIfNear" =>
        \A i \in Logical(cls) :
            self[i] = (IF FLess(FAbs(old[i]), epsilon) THEN Zero ELSE old[i])

\* C4: IsZeroOrNearZero(epsilon), called on a FloatPoint2, FloatPoint3 or
\* FloatPoint4, returns true exactly when every logical lane of the receiver
\* has absolute value <= epsilon.
C4_NearZeroTestCoversEveryLogicalLane ==
    op = "IsZeroOrNearZero" =>
        (retB <=> \A i \in Logical(cls) : FLessEq(FAbs(self[i]), epsilon))

\* C5: the bool conversion is true exactly when no logical lane is NaN and
\* none is +/-Infinity, and operator! returns the negation of that.
C5_ValidityIsNoNaNAndNoInfinity ==
    /\ op = "operator bool" => (retB <=> \A i \in Logical(cls) : IsValidLane(self[i]))
    /\ op = "operator!" => (retB <=> ~(\A i \in Logical(cls) : IsValidLane(self[i])))

\* C5 witness: (1.0, Infinity) has been converted to bool and is invalid.
C5_Witness ==
    /\ op = "operator bool" /\ cls = 2
    /\ self[1] = One /\ self[2] = PInf
    /\ retB = FALSE

-----------------------------------------------------------------------------
(* Claims about calls with two vectors *)

\* C6: the statics and the free functions give the value of the instance
\* member, in the same logical lanes: DotProduct(a,b) and Dot(a,b) that of
\* a.DotProduct(b), CrossProduct(a,b) and Cross(a,b) that of
\* a.CrossProduct(b), Normal(a) and Normalize(a) that of a normalised in
\* place, Magnitude(a) that of a.GetMagnitude().
C6_StaticsMirrorInstanceMembers ==
    /\ op = "static DotProduct" =>
           \A i \in Logical(cls) : retV[i] = FloatPoint_DotProduct(cls, self, rhs)
    /\ op = "Dot" => retF = FloatPoint_DotProduct(cls, self, rhs)
    /\ op \in {"static CrossProduct", "Cross"} =>
           \A i \in Logical(cls) : retV[i] = FloatPoint_CrossProduct(cls, self, rhs)[i]
    /\ op \in {"static Normal", "King::Normalize"} =>
           \A i \in Logical(cls) : retV[i] = FloatPoint_MakeNormalize(cls, self)[i]
    /\ op = "static Magnitude" => retF = FloatPoint_GetMagnitude(cls, self)

\* C7: a < b (<=, >, >=) returns true exactly when every logical lane of a
\* is < (<=, >, >=) the same lane of b.
C7_OrderingIsLaneWise ==
    /\ op = "operator<" => (retB <=> \A i \in Logical(cls) : FLess(self[i], rhs[i]))
    /\ op = "operator<=" => (retB <=> \A i \in Logical(cls) : FLessEq(self[i], rhs[i]))
    /\ op = "operator>" => (retB <=> \A i \in Logical(cls) : FLess(rhs[i], self[i]))
    /\ op = "operator>=" => (retB <=> \A i \in Logical(cls) : FLessEq(rhs[i], self[i]))

\* C7 witness: a is below b in lane x and above it in lane y, and a < b has
\* returned false.
C7_Witness ==
    /\ op = "operator<" /\ retB = FALSE
    /\ FLess(self[1], rhs[1]) /\ FLess(rhs[2], self[2])

\* C8 as claimed: a != b returns true only when every logical lane of a
\* differs from the same lane of b.
C8_NotEqualNeedsEveryLaneToDiffer ==
    op = "operator!=" => (retB => \A i \in Logical(cls) : ~FEq(self[i], rhs[i]))

\* C8 amended: a != b returns true exactly when at least one logical lane of
\* a differs from the same lane of b, which is exactly when a == b is false.
C8_NotEqualIsSomeLaneDiffers ==
    /\ op = "operator!=" => (retB <=> \E i \in Logical(cls) : ~FEq(self[i], rhs[i]))
    /\ op = "operator!=" => (retB <=> ~FloatPoint_Equal(cls, self, rhs))

\* C8 witness: a != b has returned true for vectors that agree in a logical
\* lane and differ in another.
C8_Witness ==
    /\ op = "operator!=" /\ retB = TRUE
    /\ \E i \in Logical(cls) : FEq(self[i], rhs[i])
    /\ \E i \in Logical(cls) : ~FEq(self[i], rhs[i])

\* C27: the comparisons of two vectors a and b of one class are a strict
\* partial order: a < a is false; a < b and b < c give a < c for every c;
\* at most one of a < b, a == b, a > b holds; a < b or a == b gives a <= b.
\* The converse fails: (1,5) <= (1,6) holds while (1,5) < (1,6) and
\* (1,5) == (1,6) do not.
C27_ComparisonsAreAStrictPartialOrder ==
    /\ (op = "operator<" /\ self = rhs) => ~retB
    /\ (op = "operator<" /\ retB) =>
           \A c \in Storages(cls, {Flt(n) : n \in -1..MaxPairLane + 1} \cup {NaN}, {Zero}) :
               /\ FloatPoint_Less(cls, rhs, c) => FloatPoint_Less(cls, self, c)
               /\ FloatPoint_Less(cls, c, self) => FloatPoint_Less(cls, c, rhs)
    /\ (op = "operator<" /\ retB) =>
           ~FloatPoint_Equal(cls, self, rhs) /\ ~FloatPoint_Greater(cls, self, rhs)
    /\ (op = "operator==" /\ retB) =>
           ~FloatPoint_Less(cls, self, rhs) /\ ~FloatPoint_Greater(cls, self, rhs)
    /\ (op = "operator>" /\ retB) =>
           ~FloatPoint_Less(cls, self, rhs) /\ ~FloatPoint_Equal(cls, self, rhs)
    /\ (/\ op = "operator<="
        /\ FloatPoint_Less(cls, self, rhs) \/ FloatPoint_Equal(cls, self, rhs)) => retB
    /\ LET a == XMVectorSet(One, Flt(5), Zero, Zero)
           b == XMVectorSet(One, Flt(6), Zero, Zero)
       IN  /\ FloatPoint_LessOrEqual(2, a, b)
           /\ ~FloatPoint_Less(2, a, b)
           /\ ~FloatPoint_Equal(2, a, b)

\* C27 witness: a <= b has returned true for vectors with neither a < b nor
\* a == b, equal in lane x and ordered in lane y.
C27_Witness ==
    /\ op = "operator<=" /\ retB = TRUE /\ cls = 2
    /\ FEq(self[1], rhs[1]) /\ FLess(self[2], rhs[2])
    /\ ~FloatPoint_Less(cls, self, rhs) /\ ~FloatPoint_Equal(cls, self, rhs)

\* C30: FloatPoint<c>(f) for a std::vector<float> f of any size returns
\* without reading an element of f at an index >= f.size(), and leaves the
\* first c elements of f in the logical lanes when f has at least c elements
\* and 0 in every lane otherwise.
C30_FromFloatArrayIsSafeAndTotal ==
    op = "FloatPoint(vector<float>)" =>
        /\ pc = "constructed"
        /\ ~retB
        /\ IF FLessEq(Flt(cls), epsilon)
           THEN \A i \in 1..4 : self[i] = IF i <= cls THEN rhs[i] ELSE Zero
           ELSE self = XMVectorZero

\* C16: widening a vector by a conversion (FloatPoint3 or FloatPoint4 built
\* from a narrower vector alone) gives 0 in every logical lane that was
\* added; narrowing it by a conversion operator gives 0 in every lane that
\* was dropped, so that a FloatPoint3 narrowed to FloatPoint2 and widened
\* again is (x, y, 0).
C16_WideningFillsZeroNarrowingDrops ==
    /\ op = "FloatPoint3(XMVECTORF32)" => retV[3] = Zero
    /\ op = "FloatPoint4(XMVECTORF32)" =>
           \A i \in Logical(4) \ Logical(cls) : retV[i] = Zero
    /\ op = "operator FloatPoint3" => retV[4] = Zero
    /\ op = "operator FloatPoint2" =>
           /\ \A i \in Logical(cls) \ Logical(2) : retV[i] = Zero
           /\ cls = 3 =>
                  LET back == FloatPoint_XMVECTOR(3, retV)
                  IN  back = XMVectorSet(self[1], self[2], Zero, Zero)

\* the two-lane vector v with z and w in its other storage lanes
WithPads(v, z, w) == XMVectorSet(v[1], v[2], z, w)

\* C17: a call on a FloatPoint2 returns the same, as a scalar or in the
\* lanes x and y, whatever the storage lanes z and w of the receiver hold:
\* validity, IsZero, the near-zero test, the snap to zero and
\* SumComponents.
C17_Vector2IgnoresStorageLanes ==
    (cls = 2 /\ pc = "returned") =>
        \A z \in PadLanes, w \in PadLanes :
            LET u == WithPads(old, z, w)
            IN  /\ op = "operator bool" => retB = FloatPoint_bool(2, u)
                /\ op = "operator!" => retB = FloatPoint_not(2, u)
                /\ op = "IsZero" => retB = FloatPoint_IsZero(2, u)
                /\ op = "IsZeroOrNearZero" =>
                       retB = FloatPoint2_IsZeroOrNearZero(u, epsilon)
                /\ op = "SetZeroIfNear" =>
                       /\ self[1] = FloatPoint2_SetZeroIfNear(u, epsilon)[1]
                       /\ self[2] = FloatPoint2_SetZeroIfNear(u, epsilon)[2]
                /\ op = "SumComponents" => retF = XMVectorGetX(XMVectorSum(u))

\* C14: a.CrossProduct(b) is -(b.CrossProduct(a)) in every lane, for
\* FloatPoint2 and FloatPoint3 a and b, and a.DotProduct(b) is
\* b.DotProduct(a) for FloatPoint2, FloatPoint3 and FloatPoint4: both return
\* the same value, or both stop at assert(!isnan(d)).
C14_CrossAntiCommutesDotCommutes ==
    /\ op = "CrossProduct" =>
           \A i \in 1..4 : retV[i] = FNeg(FloatPoint_CrossProduct(cls, rhs, self)[i])
    /\ (op = "DotProduct" /\ pc = "returned") =>
           retF = FloatPoint_DotProduct(cls, rhs, self)
    /\ (op = "DotProduct" /\ pc = "aborted") =>
           isnan(FloatPoint_DotProduct(cls, rhs, self))

\* C14 witness: (1,0,0).CrossProduct((0,1,0)) has returned (0,0,1), and the
\* product of the operands in the other order is (0,0,-1).
C14_Witness ==
    /\ op = "CrossProduct" /\ cls = 3
    /\ self = XMVectorSet(One, Zero, Zero, Zero)
    /\ rhs = XMVectorSet(Zero, One, Zero, Zero)
    /\ retV = XMVectorSet(Zero, Zero, One, Zero)
    /\ FloatPoint_CrossProduct(3, rhs, self) = XMVectorSet(Zero, Zero, FNeg(One), Zero)

\* C15: v.ProjectOnToVector(d) returns the zero vector, whatever the
\* receiver v, when every logical lane of d is 0; when d is valid and not
\* zero it returns n * (v . n) with n = d / |d|.
C15_ProjectionOnZeroIsZero ==
    op = "ProjectOnToVector" =>
        IF \A i \in Logical(cls) : rhs[i] = Zero
        THEN \A i \in Logical(cls) : retV[i] = Zero
        ELSE FloatPoint_bool(cls, rhs) =>
                 LET length == FSqrt(XMVectorGetX(XMVectorNDot(cls, rhs, rhs)))
                     n == [i \in 1..4 |-> FDiv(rhs[i], length)]
                     d == XMVectorGetX(XMVectorNDot(cls, self, n))
                 IN  \A i \in Logical(cls) : retV[i] = FMul(n[i], d)

\* C18: Average(arrayIn) of an empty array stops at its assert and returns
\* nothing; of one or two vectors it returns, in each logical lane, the sum
\* of the lanes divided by the number of vectors.
C18_AverageOfNothingIsFatal ==
    (op = "Average" /\ pc = "returned") =>
        /\ epsilon # Zero
        /\ epsilon = One => \A i \in Logical(cls) : retV[i] = self[i]
        /\ epsilon = Flt(2) =>
               \A i \in Logical(cls) : retV[i] = FDiv(FAdd(self[i], rhs[i]), Flt(2))

\* the operation on one lane that an operator of the claim names
LaneOp(o, x, y) ==
    CASE o = "+" -> FAdd(x, y)
      [] o = "-" -> FSub(x, y)
      [] o = "*" -> FMul(x, y)
      [] o = "/" -> FDiv(x, y)

\* C19: each logical lane i of a + b, a - b, a * b, a / b is a[i] op b[i];
\* each logical lane of a op s for a float s is a[i] op s; -a negates every
\* logical lane; and a op= b, a op= s leave in the logical lanes of the
\* receiver the result of the binary operator.
C19_ArithmeticIsPerLane ==
    /\ op = "operator-()" => \A i \in Logical(cls) : retV[i] = FNeg(self[i])
    /\ \A o \in {"+", "-", "*", "/"} :
        /\ op = "operator" \o o =>
               \A i \in Logical(cls) : retV[i] = LaneOp(o, self[i], rhs[i])
        /\ op = "operator" \o o \o "(float)" =>
               \A i \in Logical(cls) : retV[i] = LaneOp(o, self[i], epsilon)
        /\ op = "operator" \o o \o "=" =>
               \A i \in Logical(cls) :
                   /\ self[i] = LaneOp(o, old[i], rhs[i])
                   /\ self[i] = FloatPoint_Arith(cls, o, old, rhs)[i]
        /\ op = "operator" \o o \o "=(float)" =>
               \A i \in Logical(cls) :
                   /\ self[i] = LaneOp(o, old[i], epsilon)
                   /\ self[i] = FloatPoint_Arith(cls, o, old,
                                    FloatPoint_ScalarOperand(cls, o, FALSE, epsilon))[i]

\* C19 witness: (1,1) * (1,1) has returned (1,1), which is neither the dot
\* product 2 nor the sum.
C19_Witness ==
    /\ op = "operator*" /\ cls = 2
    /\ self = XMVectorSet(One, One, Zero, Zero) /\ rhs = self
    /\ retV[1] = One /\ retV[2] = One
    /\ FloatPoint_DotProduct(2, self, rhs) = Flt(2)

C25_Vector3KeepsWZero ==
    (/\ cls = 3 /\ pc = "returned"
     /\ FloatPoint_bool(3, old) /\ old[4] = Zero
     /\ IF \E o \in {"+", "-", "*", "/"} :
              op \in {"operator" \o o \o "(float)", "operator" \o o \o "=(float)"}
        THEN ~isnan(epsilon)
        ELSE FloatPoint_bool(3, rhs) /\ rhs[4] = Zero) =>
        /\ self[4] = Zero
        /\ (\/ op \in {"operator-()", "CrossProduct", "static CrossProduct"}
            \/ op = "Average" /\ epsilon # Zero
            \/ \E o \in {"+", "-", "*", "/"} :
                   op \in {"operator" \o o, "operator" \o o \o "(float)",
                           "operator" \o o \o "=", "operator" \o o \o "=(float)"})
               => retV[4] = Zero

-----------------------------------------------------------------------------
(* Claims about quaternions *)

IsUnit(q) == XMVectorGetX(XMVectorNDot(4, q, q)) = One

\* C1: for unit quaternions q and p, rotating a vector v by the product
\* q * p gives q * (p * v): the right operand's rotation is applied first
\* and the left operand's second.
C1_ProductAppliesRightOperandFirst ==
    (op = "Quaternion::operator*" /\ IsUnit(self) /\ IsUnit(rhs)) =>
        \A v \in Vectors3 :
            Quaternion_Rotate(retV, v) = Quaternion_Rotate(self, Quaternion_Rotate(rhs, v))

\* C9: Validate() on a quaternion with a NaN lane leaves it equal to the
\* identity (0, 0, 0, 1); on a quaternion with no NaN lane it leaves the four
\* lanes unchanged.
C9_ValidateIsFailSoft ==
    op = "Quaternion::Validate" =>
        IF \E i \in 1..4 : isnan(old[i])
        THEN self = XMVectorSet(Zero, Zero, Zero, One)
        ELSE self = old

\* C9 witness: Validate() has been called on a quaternion whose only NaN is
\* in the w lane and has left the identity.
C9_Witness ==
    /\ op = "Quaternion::Validate"
    /\ ~isnan(old[1]) /\ ~isnan(old[2]) /\ ~isnan(old[3]) /\ isnan(old[4])
    /\ self = XMVectorSet(Zero, Zero, Zero, One)

\* a * b.Inverse() as the product of a with conjugate(b) / |b|^2
TimesInverse(a, b) == XMQuaternionMultiply(a, XMQuaternionInverse(b))

\* C10 as claimed: for all quaternions a and b, a / b and a - b are
\* a * b.Inverse(), /= and -= store that value in the receiver, and for unit
\* quaternions (a / b) * b is a.
C10_DivisionIsTimesInverse ==
    /\ op \in {"Quaternion::operator/", "Quaternion::operator-"} =>
           retV = TimesInverse(self, rhs)
    /\ op \in {"Quaternion::operator/=", "Quaternion::operator-="} =>
           self = TimesInverse(old, rhs)
    /\ (op = "Quaternion::operator/" /\ IsUnit(self) /\ IsUnit(rhs)) =>
           Quaternion_Multiply(retV, Quaternion_Copy(rhs)) = self

\* C10 amended: the same for every a and every b that has no NaN lane; when
\* b has a NaN lane, a / b, a - b, a /= b and a -= b are a * identity, the
\* by-value copy of b having been reset by the copy constructor, while
\* a * b.Inverse() is NaN in every lane.
C10_DivisionIsTimesInverseOfValidated ==
    /\ (op \in {"Quaternion::operator/", "Quaternion::operator-"} /\ ~XMQuaternionIsNaN(rhs)) =>
           retV = TimesInverse(self, rhs)
    /\ (op \in {"Quaternion::operator/=", "Quaternion::operator-="} /\ ~XMQuaternionIsNaN(rhs)) =>
           self = TimesInverse(old, rhs)
    /\ (op \in {"Quaternion::operator/", "Quaternion::operator-"} /\ XMQuaternionIsNaN(rhs)) =>
           retV = TimesInverse(self, XMVectorSet(Zero, Zero, Zero, One))
    /\ (op \in {"Quaternion::operator/=", "Quaternion::operator-="} /\ XMQuaternionIsNaN(rhs)) =>
           self = TimesInverse(old, XMVectorSet(Zero, Zero, Zero, One))
    /\ (op = "Quaternion::operator* Inverse" /\ XMQuaternionIsNaN(rhs)) =>
           \A i \in 1..4 : isnan(retV[i])
    /\ (op = "Quaternion::operator* Inverse" /\ ~XMQuaternionIsNaN(rhs)) =>
           retV = TimesInverse(self, rhs)
    /\ (op = "Quaternion::operator/" /\ IsUnit(self) /\ IsUnit(rhs)) =>
           Quaternion_Multiply(retV, Quaternion_Copy(rhs)) = self

\* C10 witness: a / b has been computed for the unit quaternions
\* a = (1/2, 1/2, 1/2, 1/2) and b = (1, 0, 0, 0), which do not commute, and
\* is not the lane-wise difference.
C10_Witness ==
    /\ op = "Quaternion::operator/"
    /\ self = XMVectorSet(Half, Half, Half, Half)
    /\ rhs = XMVectorSet(One, Zero, Zero, Zero)
    /\ retV = XMVectorSet(FNeg(Half), Half, FNeg(Half), Half)
    /\ retV # XMVectorSubtract(self, rhs)

\* C11 as claimed: for a unit quaternion q, q.Inverse() * (q * v) is v for
\* every vector v and q * q.Inverse() is the identity; ~q is q with x, y, z
\* negated and w kept, and ~q == q.Inverse() exactly when q has unit norm.
C11_ConjugateIsInverseIffUnit ==
    /\ (op = "Quaternion::Inverse" /\ IsUnit(self)) =>
           /\ \A v \in Vectors3 : Quaternion_Rotate(retV, Quaternion_Rotate(self, v)) = v
           /\ Quaternion_Multiply(self, retV) = XMVectorSet(Zero, Zero, Zero, One)
    /\ op = "Quaternion::operator~" =>
           /\ retV = XMVectorSet(FNeg(self[1]), FNeg(self[2]), FNeg(self[3]), self[4])
           /\ XMVectorNEqual(4, retV, Quaternion_Inverse(self)) <=> IsUnit(self)

\* C11 amended: the same, but ~q == q.Inverse() exactly when q has unit norm
\* or q is the zero quaternion, whose Inverse() is the zero quaternion.
C11_ConjugateIsInverseIffUnitOrZero ==
    /\ (op = "Quaternion::Inverse" /\ IsUnit(self)) =>
           /\ \A v \in Vectors3 : Quaternion_Rotate(retV, Quaternion_Rotate(self, v)) = v
           /\ Quaternion_Multiply(self, retV) = XMVectorSet(Zero, Zero, Zero, One)
    /\ op = "Quaternion::operator~" =>
           /\ retV = XMVectorSet(FNeg(self[1]), FNeg(self[2]), FNeg(self[3]), self[4])
           /\ XMVectorNEqual(4, retV, Quaternion_Inverse(self))
                  <=> (IsUnit(self) \/ self = XMVectorSet(Zero, Zero, Zero, Zero))

\* C11 witness: ~q has been computed for q = (1/2, 1/2, 1/2, 0), which is
\* not of unit norm, and differs from q.Inverse().
C11_Witness ==
    /\ op = "Quaternion::operator~"
    /\ self = XMVectorSet(Half, Half, Half, Zero)
    /\ retV = XMVectorSet(FNeg(Half), FNeg(Half), FNeg(Half), Zero)
    /\ retV # Quaternion_Inverse(self)

-----------------------------------------------------------------------------
(* Claims about Random *)

\* the srand calls made so far
SrandCalls(t) == seeded[t]["Random()"] + seeded[t]["Random(float,float)"]

\* C12: while one thread alone calls the overloads of Random, srand is
\* called exactly once, during the first call, and every later call draws
\* from the stream that srand started: rand() has been called as often since
\* the last srand as it has been called at all.
C12_SeededOncePerProcess ==
    (\A u \in Threads \ {1} : thread[u].calls = 0) =>
        /\ SrandCalls(1) <= 1
        /\ drawn > 0 => (SrandCalls(1) = 1 /\ stream = drawn)

\* C13: when the threads call Random concurrently, a thread calls srand
\* under a flag only after reading it as true, so at most once per flag, and
\* the flag is false once any thread is past once = false; srand is called
\* more than once under a flag only by different threads, each of which read
\* the flag before it was cleared.
C13_ConcurrentFirstUseSeedsPerThread ==
    \A f \in RandomFlags :
        /\ \A t \in Threads : seeded[t][f] <= 1
        /\ \A t \in Threads :
               (thread[t].flag = f /\ thread[t].pc = "srand") => seeded[t][f] = 0
        /\ \A t \in Threads :
               (seeded[t][f] = 1 /\ ~(thread[t].flag = f /\ thread[t].pc = "clear"))
                   => once[f] = FALSE

\* C13 witness: two threads made their first call to Random() together and
\* both have called srand; the second srand came after a value had been
\* drawn, so that value is followed by a stream seeded again.
C13_Witness ==
    /\ \A t \in {1, 2} : thread[t].calls = 1 /\ thread[t].overload = "Random()"
    /\ \A t \in {1, 2} : seeded[t]["Random()"] = 1
    /\ drawn = 1 /\ stream = 0


\* C21: the quaternion (0, sin(pi/4), 0, cos(pi/4)) applied to the vector
\* (1, 0, 0) yields (0, 0, -1).  The rotated vector is quadratic in the
\* lanes of the quaternion, so with the lanes (0, s, 0, s) for a rational s
\* in the place of sin(pi/4) = cos(pi/4) the call yields (0, 0, -1) times
\* the squared length 2 * s * s of the quaternion.
C21_QuarterTurnAboutYTakesXToMinusZ ==
    \A s \in HalfLanes \ {Zero} :
        (/\ op = "Quaternion::operator*(FloatPoint3)"
         /\ self = XMVectorSet(Zero, s, Zero, s)
         /\ rhs = XMVectorSet(One, Zero, Zero, Zero))
            => retV = XMVectorSet(Zero, Zero, FNeg(FMul(Flt(2), FMul(s, s))), Zero)

\* C21 witness: (0, 1/2, 0, 1/2) has been applied to (1, 0, 0) and has
\* given (0, 0, -1/2).
C21_Witness ==
    /\ op = "Quaternion::operator*(FloatPoint3)"
    /\ self = XMVectorSet(Zero, Half, Zero, Half)
    /\ rhs = XMVectorSet(One, Zero, Zero, Zero)
    /\ retV = XMVectorSet(Zero, Zero, FNeg(Half), Zero)


\* k * acos(c) lies in [0, pi]: acos(c) does for k = 1, and 2 * acos(c) does
\* exactly when acos(c) <= pi / 2, that is when c >= 0
AngleInZeroToPi(a) ==
    /\ ~isnan(<<a[2], a[3]>>)
    /\ a[1] \in {1, 2}
    /\ a[1] = 2 => FLessEq(Zero, <<a[2], a[3]>>)

\* C22: for a unit quaternion q, q.GetAngleQuaternion() is twice the
\* arccosine of w and lies in [0, pi]; so does the angle of the product of
\* two unit quaternions whose own angles lie in [0, pi].
C22_QuaternionAngleIsInZeroToPi ==
    /\ (op = "Quaternion::GetAngleQuaternion" /\ IsUnit(self)) =>
           /\ retF = <<2, self[4][1], self[4][2]>>
           /\ AngleInZeroToPi(retF)
    /\ (/\ op = "Quaternion::operator*"
        /\ IsUnit(self) /\ FLessEq(Zero, self[4])
        /\ IsUnit(rhs) /\ FLessEq(Zero, rhs[4])) =>
           LET a == XMScalarACos(retV[4])
           IN  AngleInZeroToPi(<<2 * a[1], a[2], a[3]>>)


\* C23: for every unit axis A and angle theta in (0, pi), the quaternion
\* with lanes (A * sin(theta / 2), cos(theta / 2)) returns A from GetAxis(),
\* theta from GetAngleQuaternion() and theta from GetAngleEuler().
C23_AxisAngleRoundTrip ==
    op \in {"Quaternion::GetAxis", "Quaternion::GetAngleQuaternion",
            "Quaternion::GetAngleEuler"} =>
        \A A \in Storages(3, {Frac(n, 5) : n \in {-5, -4, -3, 0, 3, 4, 5}}, {Zero}),
           theta \in {<<2, n, 5>> : n \in {3, 4}} :
            (/\ XMVectorGetX(XMVectorNDot(3, A, A)) = One
             /\ self = Quaternion_SetAxisAngle(A, theta)) =>
                /\ op = "Quaternion::GetAxis" => retV = A
                /\ op = "Quaternion::GetAngleQuaternion" => retF = theta
                /\ op = "Quaternion::GetAngleEuler" => retF = theta


\* C28: bool(q) is true exactly when |w| < 0.999998, so false for the
\* identity; and for every q, a NaN in lane w included, exactly one of
\* bool(q) and !q is true.
C28_QuaternionBoolIsHasRotation ==
    /\ op = "Quaternion::operator bool" =>
           /\ retB <=> FLess(FAbs(self[4]), Frac(999998, 1000000))
           /\ self = XMQuaternionIdentity => ~retB
           /\ retB # Quaternion_not(self)
    /\ op = "Quaternion::operator!" => retB # Quaternion_bool(self)


\* C29: the copy constructor, Set(const Quaternion&), the copy assignment,
\* the move constructor and the move assignment each give the identity
\* when the source q has a NaN lane and the four lanes of q otherwise.
C29_EveryCopyRecoversFromNaN ==
    op \in {"Quaternion(const Quaternion&)", "Quaternion::Set(const Quaternion&)",
            "Quaternion::operator=(const Quaternion&)", "Quaternion(Quaternion&&)",
            "Quaternion::operator=(Quaternion&&)"} =>
        retV = IF XMQuaternionIsNaN(self) THEN XMQuaternionIdentity ELSE self


-----------------------------------------------------------------------------
(* Claims about the integer points *)

\* C26: for UIntPoint2, IntPoint2 and IntPoint3 and min <= max in every
\* lane, Clamp(c, min, max) returns in each lane c when min <= c <= max, min
\* when c < min and max when c > max; the point returned lies in [min, max]
\* and clamping it again returns it unchanged.
C26_ClampBoundsItsInput ==
    pc = "returned" =>
        /\ \A k \in 1..cls :
            /\ (old[k] <= self[k] /\ self[k] <= rhs[k]) => retV[k] = self[k]
            /\ self[k] < old[k] => retV[k] = old[k]
            /\ self[k] > rhs[k] => retV[k] = rhs[k]
            /\ old[k] <= retV[k] /\ retV[k] <= rhs[k]
        /\ King_Clamp(retV, old, rhs) = retV

=============================================================================
